---- MODULE Spec2Model ----
(***************************************************************************)
(* Model of reader.py: OCR-based extraction of (RouteID, LocationNumber,   *)
(* StoreName) records from scanned PDF pages, the batch driver that merges *)
(* them, and the query/export step.                                        *)
(*                                                                         *)
(* Texts are sequences of one-character strings; the three regular         *)
(* expressions of the program are matched character by character.          *)
(***************************************************************************)
EXTENDS Integers, Sequences, FiniteSets, TLC

VARIABLES
    \* ---- extract_info_from_page (one page) ----
    ppc,               \* position inside extract_info_from_page
    osd_outcomes,      \* outcome of each pytesseract.image_to_osd call so far
    osd_raised,        \* robust_image_to_osd raised after all retries
    rotation,          \* local `rotation`: <<>> until parsed, then <<degrees>>
    corrected_image,   \* <<angle applied to page_image>>, <<0>> = uncorrected
    ocr_images,        \* angle of the image given to each image_to_string call
    fallback_runs,     \* number of times the 180-degree fallback branch ran
    text,              \* local `text`
    first_text,        \* text returned by the first image_to_string call
    text_rotated,      \* local `text_rotated`
    route_matches,
    to_matches,
    xdock_wh_matches,
    matches,           \* list returned by extract_info_from_page
    sources,           \* local `source` of every appended match
    page_failed,       \* the outer except clause ran
    \* ---- process_pdfs (the batch driver and its worker pool) ----
    bpc,               \* position inside process_pdfs
    cpu_count,         \* multiprocessing.cpu_count() of the machine
    task_queue,        \* documents of pdf_files not yet handed to a worker
    running,           \* documents a worker is processing
    all_results,       \* local `all_results` of process_pdfs
    results_df,        \* the table process_pdfs returns
    failed_docs,       \* documents whose rasterization raised
    failed_pages,      \* <<document, page>> whose extract_info_from_page failed
    worker_results,    \* what extract_route_and_store_ids returned per document
    completed,         \* documents whose result reached the driver
    \* ---- read_queries_from_csv (alone) ----
    cpc,               \* position inside read_queries_from_csv
    csv_content,       \* the rows csv.DictReader yields, or Unreadable
    csv_queries,       \* the list read_queries_from_csv returns
    \* ---- main, search_and_save, extract_and_save_page ----
    mpc,               \* position inside main
    pdf_dir_exists,    \* os.path.exists(pdf_directory)
    csv_exists,        \* os.path.exists(csv_path)
    exit_status,       \* <<>> while running, then <<status>>
    exit_cause,        \* which statement ended the process
    extraction_started,\* process_pdfs has been called
    results_written,   \* save_results wrote route_id_mapping.xlsx
    queries,           \* local `queries` of main
    qi,                \* index of the query search_and_save is at
    ri,                \* index of the table row it is at
    out_dir,           \* names of the files in matched_pages
    initial_dir,       \* names in matched_pages when main started
    exports,           \* every file extract_and_save_page wrote
    export_errors      \* <<query index, row index>> whose export raised

pageVars == <<ppc, osd_outcomes, osd_raised, rotation, corrected_image, ocr_images,
              fallback_runs, text, first_text, text_rotated, route_matches,
              to_matches, xdock_wh_matches, matches, sources, page_failed>>

batchVars == <<bpc, cpu_count, task_queue, running, all_results, results_df,
               failed_docs, failed_pages, worker_results, completed>>

\* the batch variables main does not touch
batchRest == <<bpc, task_queue, running, all_results, failed_docs, failed_pages,
               worker_results, completed>>

csvVars == <<cpc, csv_content, csv_queries>>

mainVars == <<mpc, pdf_dir_exists, csv_exists, exit_status, exit_cause,
              extraction_started, results_written, queries, qi, ri, out_dir,
              initial_dir, exports, export_errors>>

vars == <<pageVars, batchVars, csvVars, mainVars>>

(***************************************************************************)
(* Bounds of the model.                                                    *)
(***************************************************************************)
MaxLines == 2       \* lines of text the first recognition pass may return
MaxRotLines == 1    \* lines of text the rotated pass may return
MaxCpu == 3         \* largest cpu_count() of a machine
MaxRows == 2        \* data rows of queries.csv

(***************************************************************************)
(* Characters.                                                             *)
(***************************************************************************)
Digit == {"0","1","2","3","4","5","6","7","8","9"}
Space == {" ", "\n"}
Upper == <<"A","B","C","D","E","F","G","H","I","J","K","L","M","N","O","P","Q","R","S","T","U","V","W","X","Y","Z">>
Lower == <<"a","b","c","d","e","f","g","h","i","j","k","l","m","n","o","p","q","r","s","t","u","v","w","x","y","z">>
Letter == {Upper[i] : i \in 1..26} \cup {Lower[i] : i \in 1..26}
WordChar == Letter \cup Digit \cup {"_"}
IsWord(c) == c \in WordChar

\* re.IGNORECASE: compare letters after folding to lower case
FoldMap == [c \in {Upper[i] : i \in 1..26} |->
               Lower[CHOOSE i \in 1..26 : Upper[i] = c]]
Fold(c) == IF c \in DOMAIN FoldMap THEN FoldMap[c] ELSE c

\* \b at the gap before position i
WordBoundary(s, i) ==
    LET before == i - 1 >= 1 /\ i - 1 <= Len(s) /\ IsWord(s[i - 1])
        after  == i >= 1 /\ i <= Len(s) /\ IsWord(s[i])
    IN before # after

\* a literal of the pattern at position i, letters compared case-insensitively
Literal(s, i, lit) ==
    /\ i + Len(lit) - 1 <= Len(s)
    /\ \A k \in 1..Len(lit) : Fold(s[i + k - 1]) = Fold(lit[k])

\* the same literal without re.IGNORECASE
LiteralExact(s, i, lit) ==
    /\ i + Len(lit) - 1 <= Len(s)
    /\ \A k \in 1..Len(lit) : s[i + k - 1] = lit[k]

\* greedy class*: the first position >= i whose character is not in class
RECURSIVE Skip(_, _, _)
Skip(s, i, class) ==
    IF i <= Len(s) /\ s[i] \in class THEN Skip(s, i + 1, class) ELSE i

\* \d{n} at position i
DigitsAt(s, i, n) ==
    /\ i + n - 1 <= Len(s)
    /\ \A k \in i..(i + n - 1) : s[k] \in Digit

NoMatch == [ok |-> FALSE, end |-> 0, groups |-> <<>>]

(***************************************************************************)
(* The three patterns.  Each operator is the pattern anchored at position  *)
(* i: ok, the position after the match, and the captured groups.           *)
(***************************************************************************)
ColonOrSpace == {":"} \cup Space

\* r'\bRoute[:\s]*:?(\d{8})\b'
route_id_pattern(s, i) ==
    LET b == Skip(s, i + 5, ColonOrSpace)
    IN IF /\ Literal(s, i, <<"R","o","u","t","e">>)
          /\ WordBoundary(s, i)
          /\ DigitsAt(s, b, 8)
          /\ WordBoundary(s, b + 8)
       THEN [ok |-> TRUE, end |-> b + 8, groups |-> SubSeq(s, b, b + 7)]
       ELSE NoMatch

NameTo == Letter \cup Digit \cup Space \cup {"(", ")"}
NameXDock == Letter \cup Digit \cup Space

\* r'\bTo\s+\d+\s+(\d{4})-([A-Za-z0-9\s\(\)]+)'
to_pattern(s, i) ==
    LET a == i + 2
        b == Skip(s, a, Space)
        c == Skip(s, b, Digit)
        d == Skip(s, c, Space)
        n == d + 5
        e == Skip(s, n, NameTo)
    IN IF /\ Literal(s, i, <<"T","o">>)
          /\ WordBoundary(s, i)
          /\ b > a /\ c > b /\ d > c
          /\ DigitsAt(s, d, 4)
          /\ d + 4 <= Len(s) /\ s[d + 4] = "-"
          /\ e > n
       THEN [ok |-> TRUE, end |-> e,
             groups |-> <<SubSeq(s, d, d + 3), SubSeq(s, n, e - 1)>>]
       ELSE NoMatch

\* r'\bX-Dock WH\s*:\s*(\d{4})-([A-Za-z0-9\s]+)'
xdock_wh_pattern(s, i) ==
    LET a == i + 9
        b == Skip(s, a, Space)
        c == Skip(s, b + 1, Space)
        n == c + 5
        e == Skip(s, n, NameXDock)
    IN IF /\ Literal(s, i, <<"X","-","D","o","c","k"," ","W","H">>)
          /\ WordBoundary(s, i)
          /\ b <= Len(s) /\ s[b] = ":"
          /\ DigitsAt(s, c, 4)
          /\ c + 4 <= Len(s) /\ s[c + 4] = "-"
          /\ e > n
       THEN [ok |-> TRUE, end |-> e,
             groups |-> <<SubSeq(s, c, c + 3), SubSeq(s, n, e - 1)>>]
       ELSE NoMatch

MatchAt(pat, s, i) ==
    CASE pat = "route" -> route_id_pattern(s, i)
      [] pat = "to"    -> to_pattern(s, i)
      [] pat = "xdock" -> xdock_wh_pattern(s, i)

\* pattern.findall(text): the groups of the non-overlapping matches, left to right
RECURSIVE FindFrom(_, _, _)
FindFrom(pat, s, i) ==
    IF i > Len(s) THEN <<>>
    ELSE LET m == MatchAt(pat, s, i)
         IN IF m.ok THEN <<m.groups>> \o FindFrom(pat, s, m.end)
            ELSE FindFrom(pat, s, i + 1)

findall(pat, s) == FindFrom(pat, s, 1)

(***************************************************************************)
(* Store-name cleaning: re.split(r'\sPhone', store_name)[0].strip()        *)
(***************************************************************************)
\* first position j with store_name[j] a whitespace followed by "Phone", or 0
RECURSIVE SplitAt(_, _)
SplitAt(s, j) ==
    IF j > Len(s) THEN 0
    ELSE IF s[j] \in Space /\ LiteralExact(s, j + 1, <<"P","h","o","n","e">>)
         THEN j
         ELSE SplitAt(s, j + 1)

SplitFirst(s) ==
    LET j == SplitAt(s, 1) IN IF j = 0 THEN s ELSE SubSeq(s, 1, j - 1)

RECURSIVE LStrip(_)
LStrip(s) == IF s # <<>> /\ Head(s) \in Space THEN LStrip(Tail(s)) ELSE s

RECURSIVE RStrip(_)
RStrip(s) ==
    IF s # <<>> /\ s[Len(s)] \in Space THEN RStrip(SubSeq(s, 1, Len(s) - 1)) ELSE s

Strip(s) == RStrip(LStrip(s))

\* the cleaning as it would be with re.IGNORECASE on the split pattern
RECURSIVE SplitAtIgnoreCase(_, _)
SplitAtIgnoreCase(s, j) ==
    IF j > Len(s) THEN 0
    ELSE IF s[j] \in Space /\ Literal(s, j + 1, <<"P","h","o","n","e">>)
         THEN j
         ELSE SplitAtIgnoreCase(s, j + 1)

CleanStoreNameIgnoreCase(store_name) ==
    LET j == SplitAtIgnoreCase(store_name, 1)
    IN Strip(IF j = 0 THEN store_name ELSE SubSeq(store_name, 1, j - 1))

CleanStoreName(store_name) == Strip(SplitFirst(store_name))

(***************************************************************************)
(* Texts the OCR engine may return: up to a bounded number of lines.       *)
(***************************************************************************)
\* "Route: 11111111"
LineRoute == <<"R","o","u","t","e",":"," ","1","1","1","1","1","1","1","1">>
\* "To 12 1234-Acme Phone"
LineTo == <<"T","o"," ","1","2"," ","1","2","3","4","-","A","c","m","e"," ","P","h","o","n","e">>
\* "X-Dock WH: 4321-Zed Store Phone: 555"
LineXDock == <<"X","-","D","o","c","k"," ","W","H",":"," ","4","3","2","1","-","Z","e","d"," ","S","t","o","r","e"," ","P","h","o","n","e",":"," ","5","5","5">>
\* "route 22222222 x-dock wh:8765-Max phone"
LineRouteXDock == <<"r","o","u","t","e"," ","2","2","2","2","2","2","2","2"," ","x","-","d","o","c","k"," ","w","h",":","8","7","6","5","-","M","a","x"," ","p","h","o","n","e">>
\* "Route:11111111 To 7 5678-Bob(s)Phone"
LineRouteTo == <<"R","o","u","t","e",":","1","1","1","1","1","1","1","1"," ","T","o"," ","7"," ","5","6","7","8","-","B","o","b","(","s",")","P","h","o","n","e">>
\* "Route: 123456789" (nine digits)
LineLongRoute == <<"R","o","u","t","e",":"," ","1","2","3","4","5","6","7","8","9">>

Lines == {LineRoute, LineTo, LineXDock, LineRouteXDock, LineRouteTo,
          LineLongRoute}

\* the texts of at most n lines, joined by newlines
RECURSIVE TextsOf(_)
TextsOf(n) ==
    IF n = 0 THEN {<<>>}
    ELSE LET prev == TextsOf(n - 1)
         IN prev \cup {IF t = <<>> THEN l ELSE t \o <<"\n">> \o l :
                           t \in prev, l \in Lines}

Texts == TextsOf(MaxLines)
RotatedTexts == TextsOf(MaxRotLines)

\* rotations the orientation detection may report
Rotations == {0, 90, 180, 270}

(***************************************************************************)
(* extract_info_from_page                                                  *)
(***************************************************************************)
\* robust_image_to_osd(image, config, retries=3, delay=1)
retries == 3

\* the retry loop running once too often
OsdExhaustedOffByOne(calls) == calls > retries

\* the for loop of robust_image_to_osd is over after `calls` failed attempts
OsdExhausted(calls) == calls >= retries

\* the priority reversed: To before X-Dock WH
ChooseHeaderToFirst(tm, xm) ==
    IF tm # <<>> THEN [found |-> TRUE, location_number |-> tm[1][1],
                       store_name |-> tm[1][2], source |-> "To"]
    ELSE IF xm # <<>> THEN [found |-> TRUE, location_number |-> xm[1][1],
                            store_name |-> xm[1][2], source |-> "X-Dock WH"]
    ELSE [found |-> FALSE, location_number |-> <<>>, store_name |-> <<>>,
          source |-> "None"]

\* the header a route is paired with: X-Dock WH before To, first match of each
ChooseHeader(tm, xm) ==
    IF xm # <<>> THEN [found |-> TRUE, location_number |-> xm[1][1],
                       store_name |-> xm[1][2], source |-> "X-Dock WH"]
    ELSE IF tm # <<>> THEN [found |-> TRUE, location_number |-> tm[1][1],
                            store_name |-> tm[1][2], source |-> "To"]
    ELSE [found |-> FALSE, location_number |-> <<>>, store_name |-> <<>>,
          source |-> "None"]

\* `if location_number and store_name`
Usable(h) == h.found /\ h.location_number # <<>> /\ h.store_name # <<>>

\* the for loop over route_matches: the appended (route_id, location_number, store_name)
BuildMatches(rm, tm, xm) ==
    LET h == ChooseHeader(tm, xm)
    IN IF Usable(h)
       THEN [i \in 1..Len(rm) |->
                <<rm[i], h.location_number, CleanStoreName(h.store_name)>>]
       ELSE <<>>

BuildSources(rm, tm, xm) ==
    LET h == ChooseHeader(tm, xm)
    IN IF Usable(h) THEN [i \in 1..Len(rm) |-> h.source] ELSE <<>>

\* the first pass's header matches kept when the rotated text has none
FallbackHeadersMerged(first, rotated) == IF rotated = <<>> THEN first ELSE rotated

\* the header matches in force after the fallback pass: those of the rotated text
FallbackHeaders(first, rotated) == rotated

\* image_to_osd succeeds and reports "Rotate: r"
OsdOk(r) ==
    /\ ppc = "osd"
    /\ ~OsdExhausted(Len(osd_outcomes))
    /\ osd_outcomes' = Append(osd_outcomes, "ok")
    /\ rotation' = <<r>>
    /\ corrected_image' = IF r # 0 THEN <<(360 - r) % 360>> ELSE <<0>>
    /\ ppc' = "ocr"
    /\ UNCHANGED <<osd_raised, ocr_images, fallback_runs, text, first_text,
                   text_rotated, route_matches, to_matches, xdock_wh_matches,
                   matches, sources, page_failed>>
    /\ UNCHANGED <<batchVars, csvVars, mainVars>>

\* image_to_osd succeeds but its output has no "Rotate:" line: re.search gives
\* None, .group raises, the inner except clause keeps the uncorrected image
OsdMalformed ==
    /\ ppc = "osd"
    /\ ~OsdExhausted(Len(osd_outcomes))
    /\ osd_outcomes' = Append(osd_outcomes, "ok")
    /\ corrected_image' = <<0>>
    /\ ppc' = "ocr"
    /\ UNCHANGED <<osd_raised, rotation, ocr_images, fallback_runs, text,
                   first_text, text_rotated, route_matches, to_matches,
                   xdock_wh_matches, matches, sources, page_failed>>
    /\ UNCHANGED <<batchVars, csvVars, mainVars>>

\* image_to_osd raises; after the last retry robust_image_to_osd raises and the
\* inner except clause of extract_info_from_page keeps the uncorrected image
OsdFail ==
    /\ ppc = "osd"
    /\ ~OsdExhausted(Len(osd_outcomes))
    /\ osd_outcomes' = Append(osd_outcomes, "fail")
    /\ IF OsdExhausted(Len(osd_outcomes) + 1)
       THEN /\ osd_raised' = TRUE
            /\ corrected_image' = <<0>>
            /\ ppc' = "ocr"
       ELSE UNCHANGED <<osd_raised, corrected_image, ppc>>
    /\ UNCHANGED <<rotation, ocr_images, fallback_runs, text, first_text,
                   text_rotated, route_matches, to_matches, xdock_wh_matches,
                   matches, sources, page_failed>>
    /\ UNCHANGED <<batchVars, csvVars, mainVars>>

\* the first image_to_string call returns t
Ocr(t) ==
    /\ ppc = "ocr"
    /\ ocr_images' = Append(ocr_images, corrected_image[1])
    /\ text' = t
    /\ first_text' = t
    /\ route_matches' = findall("route", t)
    /\ to_matches' = findall("to", t)
    /\ xdock_wh_matches' = findall("xdock", t)
    /\ IF route_matches' # <<>>
       THEN /\ matches' = BuildMatches(route_matches', to_matches', xdock_wh_matches')
            /\ sources' = BuildSources(route_matches', to_matches', xdock_wh_matches')
            /\ ppc' = "done"
       ELSE /\ ppc' = "fallback"
            /\ UNCHANGED <<matches, sources>>
    /\ UNCHANGED <<osd_outcomes, osd_raised, rotation, corrected_image,
                   fallback_runs, text_rotated, page_failed>>
    /\ UNCHANGED <<batchVars, csvVars, mainVars>>

\* the fallback image_to_string call, on the image rotated by 180, returns t
Fallback(t) ==
    /\ ppc = "fallback"
    /\ fallback_runs' = fallback_runs + 1
    /\ ocr_images' = Append(ocr_images, (corrected_image[1] + 180) % 360)
    /\ text_rotated' = t
    /\ route_matches' = findall("route", t)
    /\ to_matches' = FallbackHeaders(to_matches, findall("to", t))
    /\ xdock_wh_matches' = FallbackHeaders(xdock_wh_matches, findall("xdock", t))
    /\ text' = IF route_matches' # <<>> THEN t ELSE text
    /\ matches' = BuildMatches(route_matches', to_matches', xdock_wh_matches')
    /\ sources' = BuildSources(route_matches', to_matches', xdock_wh_matches')
    /\ ppc' = "done"
    /\ UNCHANGED <<osd_outcomes, osd_raised, rotation, corrected_image,
                   first_text, page_failed>>
    /\ UNCHANGED <<batchVars, csvVars, mainVars>>

\* an image_to_string call raises: the outer except clause returns []
OcrRaises ==
    /\ ppc \in {"ocr", "fallback"}
    /\ page_failed' = TRUE
    /\ matches' = <<>>
    /\ sources' = <<>>
    /\ ppc' = "done"
    /\ ocr_images' = Append(ocr_images,
                            IF ppc = "ocr" THEN corrected_image[1]
                            ELSE (corrected_image[1] + 180) % 360)
    /\ UNCHANGED <<osd_outcomes, osd_raised, rotation, corrected_image,
                   fallback_runs, text, first_text, text_rotated,
                   route_matches, to_matches, xdock_wh_matches>>
    /\ UNCHANGED <<batchVars, csvVars, mainVars>>

PageNext ==
    \/ \E r \in Rotations : OsdOk(r)
    \/ OsdMalformed
    \/ OsdFail
    \/ \E t \in Texts : Ocr(t)
    \/ \E t \in RotatedTexts : Fallback(t)
    \/ OcrRaises

(***************************************************************************)
(* The input directory tree and what its pages hold.                       *)
(***************************************************************************)
R1 == <<"1","1","1","1","1","1","1","1">>
R2 == <<"2","2","2","2","2","2","2","2">>
L1 == <<"1","2","3","4">>
L2 == <<"8","7","6","5">>

TopDir == "pdfs"
FileA    == [dir |-> "pdfs", name |-> "a.pdf"]
FileB    == [dir |-> "pdfs", name |-> "b.pdf"]
FileSubA == [dir |-> "pdfs/sub", name |-> "a.pdf"]
FileSubC == [dir |-> "pdfs/sub", name |-> "c.pdf"]

\* os.walk(pdf_directory): the top directory first, then its subdirectory
pdf_files == <<FileA, FileB, FileSubA, FileSubC>>
PdfSet == {pdf_files[i] : i \in 1..Len(pdf_files)}

\* len(pages) of convert_from_path(pdf_path)
NumPages(f) == IF f = FileA THEN 2 ELSE 1

\* what extract_info_from_page returns for a page when it does not fail:
\* one (route_id, location_number, store_name) per route mention
PageMatches(f, p) ==
    CASE f = FileA /\ p = 1 -> <<<<R1, L1, "Acme">>>>
      [] f = FileA /\ p = 2 -> <<<<R2, L2, "Max phone">>, <<R2, L2, "Max phone">>>>
      [] f = FileB /\ p = 1 -> <<<<R1, L1, "Acme">>>>
      [] f = FileSubA /\ p = 1 -> <<<<R1, L1, "Zed Store">>>>
      [] f = FileSubC /\ p = 1 -> <<<<R2, L2, "Max phone">>>>
      [] OTHER -> <<>>

(***************************************************************************)
(* extract_route_and_store_ids and process_pdfs                            *)
(***************************************************************************)
UpperMap == [c \in {Lower[i] : i \in 1..26} |->
                Upper[CHOOSE i \in 1..26 : Lower[i] = c]]
\* str.upper()
PyUpper(s) == [i \in 1..Len(s) |-> IF s[i] \in DOMAIN UpperMap THEN UpperMap[s[i]] ELSE s[i]]

\* os.path.basename(pdf_path)
basename(f) == f.name

\* the result dict built for one match
Row(f, p, m) ==
    [RouteID |-> PyUpper(m[1]), LocationNumber |-> m[2], StoreName |-> m[3],
     PDF |-> basename(f), PageNumber |-> p]

\* the rows one page adds to `results`: none when extract_info_from_page
\* caught an exception and returned []
PageRows(f, p, pagefails) ==
    IF p \in pagefails THEN <<>>
    ELSE [i \in 1..Len(PageMatches(f, p)) |-> Row(f, p, PageMatches(f, p)[i])]

RECURSIVE RowsFrom(_, _, _)
RowsFrom(f, p, pagefails) ==
    IF p > NumPages(f) THEN <<>>
    ELSE PageRows(f, p, pagefails) \o RowsFrom(f, p + 1, pagefails)

\* a page's exception escaping to the document's except clause: the rows found
\* so far are kept and the pages after it are never read
RECURSIVE RowsUntilFailure(_, _, _)
RowsUntilFailure(f, p, pagefails) ==
    IF p > NumPages(f) \/ p \in pagefails THEN <<>>
    ELSE PageRows(f, p, pagefails) \o RowsUntilFailure(f, p + 1, pagefails)

ExtractAbortingOnPageFailure(f, docfail, pagefails) ==
    IF docfail THEN <<>> ELSE RowsUntilFailure(f, 1, pagefails)

\* extract_route_and_store_ids(pdf_path): docfail is convert_from_path raising
extract_route_and_store_ids(f, docfail, pagefails) ==
    IF docfail THEN <<>> ELSE RowsFrom(f, 1, pagefails)

Key(row) == <<row.RouteID, row.LocationNumber, row.PDF, row.PageNumber>>

\* DataFrame.drop_duplicates(subset=[...]): keeps the first row of every key
RECURSIVE DropFrom(_, _)
DropFrom(rows, seen) ==
    IF rows = <<>> THEN <<>>
    ELSE IF Key(Head(rows)) \in seen THEN DropFrom(Tail(rows), seen)
         ELSE <<Head(rows)>> \o DropFrom(Tail(rows), seen \cup {Key(Head(rows))})

\* a deduplication that only drops a row equal in key to the row before it
RECURSIVE DropAdjacent(_)
DropAdjacent(rows) ==
    IF Len(rows) < 2 THEN rows
    ELSE IF Key(rows[1]) = Key(rows[2]) THEN DropAdjacent(Tail(rows))
         ELSE <<Head(rows)>> \o DropAdjacent(Tail(rows))

drop_duplicates(rows) == DropFrom(rows, {})

Min(a, b) == IF a < b THEN a ELSE b

\* pool_size = min(cpu_count() - 1, 4)
PoolLimit == 4
pool_size == Min(cpu_count - 1, PoolLimit)

\* Pool(processes=pool_size): ValueError when pool_size < 1
OpenPool ==
    /\ bpc = "start"
    /\ bpc' = IF pool_size < 1 THEN "raised" ELSE "pool"
    /\ UNCHANGED <<cpu_count, task_queue, running, all_results, results_df,
                   failed_docs, failed_pages, worker_results, completed>>
    /\ UNCHANGED <<pageVars, csvVars, mainVars>>

\* an idle worker takes the next document of pdf_files
Dispatch ==
    /\ bpc = "pool"
    /\ task_queue # <<>>
    /\ Cardinality(running) < pool_size
    /\ running' = running \cup {Head(task_queue)}
    /\ task_queue' = Tail(task_queue)
    /\ UNCHANGED <<bpc, cpu_count, all_results, results_df, failed_docs,
                   failed_pages, worker_results, completed>>
    /\ UNCHANGED <<pageVars, csvVars, mainVars>>

\* a worker finishes extract_route_and_store_ids(f) and the driver extends
\* all_results with what it returned (imap_unordered: in arrival order)
Complete(f, docfail, pagefails) ==
    /\ bpc = "pool"
    /\ f \in running
    /\ LET result == extract_route_and_store_ids(f, docfail, pagefails)
       IN /\ all_results' = all_results \o result
          /\ worker_results' = [worker_results EXCEPT ![f] = result]
    /\ running' = running \ {f}
    /\ completed' = completed \cup {f}
    /\ failed_docs' = IF docfail THEN failed_docs \cup {f} ELSE failed_docs
    /\ failed_pages' = IF docfail THEN failed_pages
                       ELSE failed_pages \cup {<<f, p>> : p \in pagefails}
    /\ UNCHANGED <<bpc, cpu_count, task_queue, results_df>>
    /\ UNCHANGED <<pageVars, csvVars, mainVars>>

\* every result has arrived: deduplicate and return the table
ReturnTable ==
    /\ bpc = "pool"
    /\ task_queue = <<>>
    /\ running = {}
    /\ results_df' = IF all_results # <<>> THEN drop_duplicates(all_results) ELSE <<>>
    /\ bpc' = "returned"
    /\ UNCHANGED <<cpu_count, task_queue, running, all_results, failed_docs,
                   failed_pages, worker_results, completed>>
    /\ UNCHANGED <<pageVars, csvVars, mainVars>>

BatchNext ==
    \/ OpenPool
    \/ Dispatch
    \/ \E f \in PdfSet : \E docfail \in BOOLEAN :
           \E pagefails \in SUBSET (1..NumPages(f)) :
              /\ docfail => pagefails = {}
              /\ Complete(f, docfail, pagefails)
    \/ ReturnTable

(***************************************************************************)
(* read_queries_from_csv                                                   *)
(***************************************************************************)
\* the value csv.DictReader gives a field the row is too short to hold
None == <<"<None>">>

\* "RouteID,LocationNumber" rows of queries.csv
RowQ1      == [RouteID |-> R1, LocationNumber |-> L1]
RowQ2      == [RouteID |-> R2, LocationNumber |-> L2]
RowPadded  == [RouteID |-> <<" ">> \o R1, LocationNumber |-> L1 \o <<" ">>]
RowShort   == [RouteID |-> <<"1","2","3">>, LocationNumber |-> L1]
RowAlpha   == [RouteID |-> <<"1","1","1","1","1","1","1","a">>, LocationNumber |-> L1]
RowEmpty   == [RouteID |-> <<>>, LocationNumber |-> L1]
RowMissing == [RouteID |-> R1, LocationNumber |-> None]

RowKinds == {RowQ1, RowQ2, RowPadded, RowShort, RowAlpha, RowEmpty, RowMissing}

RECURSIVE RowsUpTo(_)
RowsUpTo(n) ==
    IF n = 0 THEN {<<>>}
    ELSE LET prev == RowsUpTo(n - 1)
         IN prev \cup {Append(rows, r) : rows \in prev, r \in RowKinds}

\* queries.csv as read_queries_from_csv finds it: open(csv_path) raises, or
\* csv.DictReader yields the rows
Unreadable == [readable |-> FALSE, rows |-> <<>>]
CsvContents == {[readable |-> TRUE, rows |-> rows] : rows \in RowsUpTo(MaxRows)}
                   \cup {Unreadable}

\* row.get(key, '')
Get(row, key) == IF key \in DOMAIN row THEN row[key] ELSE <<>>

\* re.fullmatch(r'\d{n}', s)
FullMatchDigits(s, n) == Len(s) = n /\ DigitsAt(s, 1, n)

\* the for loop over the reader; None.strip() raises AttributeError, the except
\* clause around the whole loop ends the reading and `queries` is returned as is
RECURSIVE ReadRows(_)
ReadRows(rows) ==
    IF rows = <<>> THEN <<>>
    ELSE LET row == Head(rows)
             rid == Get(row, "RouteID")
             loc == Get(row, "LocationNumber")
         IN IF rid = None \/ loc = None THEN <<>>
            ELSE LET route_id == Strip(rid)
                     location_number == Strip(loc)
                 IN IF /\ route_id # <<>> /\ location_number # <<>>
                       /\ FullMatchDigits(route_id, 8)
                       /\ FullMatchDigits(location_number, 4)
                    THEN <<<<route_id, location_number>>>> \o ReadRows(Tail(rows))
                    ELSE ReadRows(Tail(rows))

read_queries_from_csv(content) ==
    IF ~content.readable THEN <<>> ELSE ReadRows(content.rows)

CsvRead ==
    /\ cpc = "start"
    /\ csv_queries' = read_queries_from_csv(csv_content)
    /\ cpc' = "returned"
    /\ UNCHANGED csv_content
    /\ UNCHANGED <<pageVars, batchVars, mainVars>>

CsvNext == CsvRead

(***************************************************************************)
(* extract_and_save_page and search_and_save                               *)
(***************************************************************************)
DigitChar == <<"0","1","2","3","4","5","6","7","8","9">>

\* str(n) of a non-negative integer
RECURSIVE PyStr(_)
PyStr(n) ==
    IF n < 10 THEN <<DigitChar[n + 1]>>
    ELSE PyStr(n \div 10) \o <<DigitChar[(n % 10) + 1]>>

\* f"{route_id} - {location_number}.pdf"
BaseName(route_id, location_number) ==
    route_id \o <<" ","-"," ">> \o location_number \o <<".","p","d","f">>

\* f"{route_id} - {location_number} ({count}).pdf"
CountedName(route_id, location_number, count) ==
    route_id \o <<" ","-"," ">> \o location_number \o <<" ","(">> \o PyStr(count)
        \o <<")">> \o <<".","p","d","f">>

\* while os.path.exists(new_pdf_path): take the name with (count); count += 1
RECURSIVE WhileExists(_, _, _, _, _)
WhileExists(dir, route_id, location_number, count, new_pdf_name) ==
    IF new_pdf_name \in dir
    THEN WhileExists(dir, route_id, location_number, count + 1,
                     CountedName(route_id, location_number, count))
    ELSE new_pdf_name

\* an `if` in place of the `while`: the name with (1) is taken unchecked
NewPdfNameIfOnly(dir, route_id, location_number) ==
    IF BaseName(route_id, location_number) \in dir
    THEN CountedName(route_id, location_number, 1)
    ELSE BaseName(route_id, location_number)

\* the name extract_and_save_page writes to
NewPdfName(dir, route_id, location_number) ==
    WhileExists(dir, route_id, location_number, 1, BaseName(route_id, location_number))

\* os.path.join(pdf_directory, row['PDF'])
SourcePath(row) == [dir |-> TopDir, name |-> row.PDF]

\* open(pdf_path) and reader.pages[page_number - 1] both succeed
SourceReadable(row) ==
    /\ SourcePath(row) \in PdfSet
    /\ row.PageNumber >= 1
    /\ row.PageNumber <= NumPages(SourcePath(row))

\* the row is in matching_records of the query
Matches(q, row) == row.RouteID = PyUpper(q[1]) /\ row.LocationNumber = q[2]

\* the next <<query index, row index>> at or after <<i, j>> whose row matches,
\* in the order search_and_save visits them; <<0, 0>> when there is none
RECURSIVE NextMatch(_, _, _, _)
NextMatch(df, qs, i, j) ==
    IF i > Len(qs) THEN <<0, 0>>
    ELSE IF j > Len(df) THEN NextMatch(df, qs, i + 1, 1)
    ELSE IF Matches(qs[i], df[j]) THEN <<i, j>>
    ELSE NextMatch(df, qs, i, j + 1)

(***************************************************************************)
(* main                                                                    *)
(***************************************************************************)
\* contents of matched_pages before the run
InitialDirs == {{}, {BaseName(R1, L1)}, {CountedName(R1, L1, 1)},
                {BaseName(R1, L1), CountedName(R1, L1, 1)}}

\* orders in which the results of pdf_files can arrive from k workers: a
\* document is handed out only when fewer than k earlier ones are unfinished
IndexOf(f) == CHOOSE i \in 1..Len(pdf_files) : pdf_files[i] = f
ArrivalOrders(k) ==
    {o \in [1..Len(pdf_files) -> PdfSet] :
        /\ \A i, j \in 1..Len(pdf_files) : i # j => o[i] # o[j]
        /\ \A j \in 1..Len(pdf_files) : IndexOf(o[j]) <= j + k - 1}

AllPages == {<<f, p>> \in PdfSet \X (1..2) : p <= NumPages(f)}

RECURSIVE Merge(_, _, _, _)
Merge(order, i, faildocs, failpages) ==
    IF i > Len(order) THEN <<>>
    ELSE extract_route_and_store_ids(order[i], order[i] \in faildocs,
                                     {p \in 1..NumPages(order[i]) : <<order[i], p>> \in failpages})
         \o Merge(order, i + 1, faildocs, failpages)

\* the table process_pdfs returns when the results arrive in `order`
process_pdfs(order, faildocs, failpages) ==
    LET all == Merge(order, 1, faildocs, failpages)
    IN IF all # <<>> THEN drop_duplicates(all) ELSE <<>>

\* the tables process_pdfs can return on this machine
Tables == {process_pdfs(o, fd, fp) :
              o \in ArrivalOrders(pool_size), fd \in SUBSET PdfSet, fp \in SUBSET AllPages}

\* if not os.path.exists(pdf_directory): sys.exit(1)
CheckPdfDir ==
    /\ mpc = "start"
    /\ IF pdf_dir_exists
       THEN mpc' = "check_csv" /\ UNCHANGED <<exit_status, exit_cause>>
       ELSE mpc' = "exited" /\ exit_status' = <<1>> /\ exit_cause' = "no_pdf_dir"
    /\ UNCHANGED <<pdf_dir_exists, csv_exists, extraction_started, results_written,
                   queries, qi, ri, out_dir, initial_dir, exports, export_errors>>
    /\ UNCHANGED <<pageVars, batchVars, csvVars>>

\* main without the check of csv_path
CheckCsvSkipped ==
    /\ mpc = "check_csv"
    /\ mpc' = "process"
    /\ UNCHANGED <<exit_status, exit_cause>>
    /\ UNCHANGED <<pdf_dir_exists, csv_exists, extraction_started, results_written,
                   queries, qi, ri, out_dir, initial_dir, exports, export_errors>>
    /\ UNCHANGED <<pageVars, batchVars, csvVars>>

\* if not os.path.exists(csv_path): sys.exit(1)
CheckCsv ==
    /\ mpc = "check_csv"
    /\ IF csv_exists
       THEN mpc' = "process" /\ UNCHANGED <<exit_status, exit_cause>>
       ELSE mpc' = "exited" /\ exit_status' = <<1>> /\ exit_cause' = "no_csv"
    /\ UNCHANGED <<pdf_dir_exists, csv_exists, extraction_started, results_written,
                   queries, qi, ri, out_dir, initial_dir, exports, export_errors>>
    /\ UNCHANGED <<pageVars, batchVars, csvVars>>

\* route_id_df = process_pdfs(pdf_directory); Pool(processes=0) raises
\* ValueError, which nothing catches: the interpreter ends with status 1
ProcessPdfs ==
    /\ mpc = "process"
    /\ extraction_started' = TRUE
    /\ IF pool_size < 1
       THEN /\ mpc' = "exited" /\ exit_status' = <<1>> /\ exit_cause' = "pool_error"
            /\ UNCHANGED results_df
       ELSE /\ results_df' \in Tables
            /\ mpc' = "save"
            /\ UNCHANGED <<exit_status, exit_cause>>
    /\ UNCHANGED <<pdf_dir_exists, csv_exists, results_written, queries, qi, ri,
                   out_dir, initial_dir, exports, export_errors>>
    /\ UNCHANGED <<pageVars, batchRest, cpu_count, csvVars>>

\* save_results(route_id_df, output_excel): an exception of to_excel is caught
SaveResults(ok) ==
    /\ mpc = "save"
    /\ results_written' = ok
    /\ mpc' = "read"
    /\ UNCHANGED <<pdf_dir_exists, csv_exists, exit_status, exit_cause,
                   extraction_started, queries, qi, ri, out_dir, initial_dir,
                   exports, export_errors>>
    /\ UNCHANGED <<pageVars, batchVars, csvVars>>

\* queries = read_queries_from_csv(csv_path); if not queries: sys.exit(1)
ReadQueries(content) ==
    /\ mpc = "read"
    /\ queries' = read_queries_from_csv(content)
    /\ IF queries' = <<>>
       THEN mpc' = "exited" /\ exit_status' = <<1>> /\ exit_cause' = "no_queries"
       ELSE mpc' = "search" /\ UNCHANGED <<exit_status, exit_cause>>
    /\ qi' = 1
    /\ ri' = 1
    /\ UNCHANGED <<pdf_dir_exists, csv_exists, extraction_started, results_written,
                   out_dir, initial_dir, exports, export_errors>>
    /\ UNCHANGED <<pageVars, batchVars, csvVars>>

\* search_and_save reaches the next matching record and calls
\* extract_and_save_page(pdf_path, page_number, route_id, location_number)
ExportPage ==
    /\ mpc = "search"
    /\ LET at == NextMatch(results_df, queries, qi, ri)
       IN /\ at # <<0, 0>>
          /\ LET q == queries[at[1]]
                 row == results_df[at[2]]
                 name == NewPdfName(out_dir, q[1], q[2])
             IN IF SourceReadable(row)
                THEN /\ out_dir' = out_dir \cup {name}
                     /\ exports' = Append(exports,
                            [route_id |-> q[1], location_number |-> q[2],
                             name |-> name, existed |-> name \in out_dir,
                             query |-> at[1], row |-> at[2]])
                     /\ UNCHANGED export_errors
                ELSE /\ export_errors' = export_errors \cup {at}
                     /\ UNCHANGED <<out_dir, exports>>
          /\ qi' = at[1]
          /\ ri' = at[2] + 1
    /\ UNCHANGED <<mpc, pdf_dir_exists, csv_exists, exit_status, exit_cause,
                   extraction_started, results_written, queries, initial_dir>>
    /\ UNCHANGED <<pageVars, batchVars, csvVars>>

\* no record is left to export: search_and_save returns and main ends
Finish ==
    /\ mpc = "search"
    /\ NextMatch(results_df, queries, qi, ri) = <<0, 0>>
    /\ mpc' = "finished"
    /\ exit_status' = <<0>>
    /\ exit_cause' = "finished"
    /\ UNCHANGED <<pdf_dir_exists, csv_exists, extraction_started, results_written,
                   queries, qi, ri, out_dir, initial_dir, exports, export_errors>>
    /\ UNCHANGED <<pageVars, batchVars, csvVars>>

Next ==
    \/ CheckPdfDir
    \/ CheckCsv
    \/ ProcessPdfs
    \/ \E ok \in BOOLEAN : SaveResults(ok)
    \/ \E content \in CsvContents : ReadQueries(content)
    \/ ExportPage
    \/ Finish

(***************************************************************************)
(* Specifications: one per component, the others at rest.                  *)
(***************************************************************************)
PageSpecInit ==
    /\ ppc = "osd"
    /\ osd_outcomes = <<>>
    /\ osd_raised = FALSE
    /\ rotation = <<>>
    /\ corrected_image = <<>>
    /\ ocr_images = <<>>
    /\ fallback_runs = 0
    /\ text = <<>>
    /\ first_text = <<>>
    /\ text_rotated = <<>>
    /\ route_matches = <<>>
    /\ to_matches = <<>>
    /\ xdock_wh_matches = <<>>
    /\ matches = <<>>
    /\ sources = <<>>
    /\ page_failed = FALSE
    /\ bpc = "idle"
    /\ cpu_count = 2
    /\ task_queue = <<>>
    /\ running = {}
    /\ all_results = <<>>
    /\ results_df = <<>>
    /\ failed_docs = {}
    /\ failed_pages = {}
    /\ worker_results = <<>>
    /\ completed = {}
    /\ cpc = "idle"
    /\ csv_content = Unreadable
    /\ csv_queries = <<>>
    /\ mpc = "idle"
    /\ pdf_dir_exists = TRUE
    /\ csv_exists = TRUE
    /\ exit_status = <<>>
    /\ exit_cause = "none"
    /\ extraction_started = FALSE
    /\ results_written = FALSE
    /\ queries = <<>>
    /\ qi = 0
    /\ ri = 0
    /\ out_dir = {}
    /\ initial_dir = {}
    /\ exports = <<>>
    /\ export_errors = {}

BatchSpecInit ==
    /\ ppc = "idle"
    /\ osd_outcomes = <<>>
    /\ osd_raised = FALSE
    /\ rotation = <<>>
    /\ corrected_image = <<>>
    /\ ocr_images = <<>>
    /\ fallback_runs = 0
    /\ text = <<>>
    /\ first_text = <<>>
    /\ text_rotated = <<>>
    /\ route_matches = <<>>
    /\ to_matches = <<>>
    /\ xdock_wh_matches = <<>>
    /\ matches = <<>>
    /\ sources = <<>>
    /\ page_failed = FALSE
    /\ bpc = "start"
    /\ cpu_count \in 1..MaxCpu
    /\ task_queue = pdf_files
    /\ running = {}
    /\ all_results = <<>>
    /\ results_df = <<>>
    /\ failed_docs = {}
    /\ failed_pages = {}
    /\ worker_results = [f \in PdfSet |-> <<>>]
    /\ completed = {}
    /\ cpc = "idle"
    /\ csv_content = Unreadable
    /\ csv_queries = <<>>
    /\ mpc = "idle"
    /\ pdf_dir_exists = TRUE
    /\ csv_exists = TRUE
    /\ exit_status = <<>>
    /\ exit_cause = "none"
    /\ extraction_started = FALSE
    /\ results_written = FALSE
    /\ queries = <<>>
    /\ qi = 0
    /\ ri = 0
    /\ out_dir = {}
    /\ initial_dir = {}
    /\ exports = <<>>
    /\ export_errors = {}

CsvSpecInit ==
    /\ ppc = "idle"
    /\ osd_outcomes = <<>>
    /\ osd_raised = FALSE
    /\ rotation = <<>>
    /\ corrected_image = <<>>
    /\ ocr_images = <<>>
    /\ fallback_runs = 0
    /\ text = <<>>
    /\ first_text = <<>>
    /\ text_rotated = <<>>
    /\ route_matches = <<>>
    /\ to_matches = <<>>
    /\ xdock_wh_matches = <<>>
    /\ matches = <<>>
    /\ sources = <<>>
    /\ page_failed = FALSE
    /\ bpc = "idle"
    /\ cpu_count = 2
    /\ task_queue = <<>>
    /\ running = {}
    /\ all_results = <<>>
    /\ results_df = <<>>
    /\ failed_docs = {}
    /\ failed_pages = {}
    /\ worker_results = <<>>
    /\ completed = {}
    /\ cpc = "start"
    /\ csv_content \in CsvContents
    /\ csv_queries = <<>>
    /\ mpc = "idle"
    /\ pdf_dir_exists = TRUE
    /\ csv_exists = TRUE
    /\ exit_status = <<>>
    /\ exit_cause = "none"
    /\ extraction_started = FALSE
    /\ results_written = FALSE
    /\ queries = <<>>
    /\ qi = 0
    /\ ri = 0
    /\ out_dir = {}
    /\ initial_dir = {}
    /\ exports = <<>>
    /\ export_errors = {}

Init ==
    /\ ppc = "idle"
    /\ osd_outcomes = <<>>
    /\ osd_raised = FALSE
    /\ rotation = <<>>
    /\ corrected_image = <<>>
    /\ ocr_images = <<>>
    /\ fallback_runs = 0
    /\ text = <<>>
    /\ first_text = <<>>
    /\ text_rotated = <<>>
    /\ route_matches = <<>>
    /\ to_matches = <<>>
    /\ xdock_wh_matches = <<>>
    /\ matches = <<>>
    /\ sources = <<>>
    /\ page_failed = FALSE
    /\ bpc = "idle"
    /\ cpu_count \in 1..MaxCpu
    /\ task_queue = <<>>
    /\ running = {}
    /\ all_results = <<>>
    /\ results_df = <<>>
    /\ failed_docs = {}
    /\ failed_pages = {}
    /\ worker_results = <<>>
    /\ completed = {}
    /\ cpc = "idle"
    /\ csv_content = Unreadable
    /\ csv_queries = <<>>
    /\ mpc = "start"
    /\ pdf_dir_exists \in BOOLEAN
    /\ csv_exists \in BOOLEAN
    /\ exit_status = <<>>
    /\ exit_cause = "none"
    /\ extraction_started = FALSE
    /\ results_written = FALSE
    /\ queries = <<>>
    /\ qi = 0
    /\ ri = 0
    /\ initial_dir \in InitialDirs
    /\ out_dir = initial_dir
    /\ exports = <<>>
    /\ export_errors = {}

SpecPage == PageSpecInit /\ [][PageNext]_vars

SpecBatch == BatchSpecInit /\ [][BatchNext]_vars


\* process_pdfs with the pool's processes and the driver loop scheduled: a
\* step that stays possible is eventually taken
SpecBatchFair == BatchSpecInit /\ [][BatchNext]_vars /\ WF_vars(BatchNext)

SpecCsv == CsvSpecInit /\ [][CsvNext]_vars

Spec == Init /\ [][Next]_vars

(***************************************************************************)
(* Properties                                                              *)
(***************************************************************************)
Phone == <<"P","h","o","n","e">>

\* the store name captured by the header the records of the page are built from
CapturedName == ChooseHeader(to_matches, xdock_wh_matches).store_name

\* first position at which pattern pat matches in s, 0 when it never does
RECURSIVE FirstPos(_, _, _)
FirstPos(pat, s, i) ==
    IF i > Len(s) THEN 0
    ELSE IF MatchAt(pat, s, i).ok THEN i ELSE FirstPos(pat, s, i + 1)

\* C1: on a page text where both the X-Dock WH pattern and the To pattern
\* match, every emitted record carries the location number and (cleaned) store
\* name of the first X-Dock WH match, and its source is X-Dock WH, never To.
C1_XDockPriority ==
    (ppc = "done" /\ matches # <<>>) =>
        LET xm == findall("xdock", text)
            tm == findall("to", text)
        IN (xm # <<>> /\ tm # <<>>) =>
              \A i \in 1..Len(matches) :
                  /\ matches[i][2] = xm[1][1]
                  /\ matches[i][3] = CleanStoreName(xm[1][2])
                  /\ sources[i] = "X-Dock WH"

\* a page whose To header comes before its X-Dock WH header, with another
\* location number, has emitted a record
C1_Witness ==
    /\ ppc = "done" /\ matches # <<>>
    /\ FirstPos("to", text, 1) > 0
    /\ FirstPos("xdock", text, 1) > FirstPos("to", text, 1)
    /\ findall("to", text)[1][1] # findall("xdock", text)[1][1]

\* C2: the 180-degree fallback pass runs at most once per page and only when
\* the first pass found no route identifier; when the rotated pass finds a
\* route, the records are built from the rotated text's route, To and X-Dock WH
\* matches alone.
C2_FallbackSupersedes ==
    /\ fallback_runs <= 1
    /\ Len(ocr_images) <= 2
    /\ fallback_runs = 1 => FirstPos("route", first_text, 1) = 0
    /\ (ppc = "done" /\ ~page_failed /\ fallback_runs = 1) =>
          LET rm == findall("route", text_rotated)
          IN rm # <<>> =>
                /\ matches = BuildMatches(rm, findall("to", text_rotated),
                                          findall("xdock", text_rotated))
                /\ text = text_rotated

\* the first pass found an X-Dock WH header but no route; the rotated pass
\* found a route and a To header only, and a record was emitted
C2_Witness ==
    /\ ppc = "done" /\ fallback_runs = 1 /\ matches # <<>>
    /\ findall("xdock", first_text) # <<>>
    /\ findall("xdock", text_rotated) = <<>>

\* C3: orientation detection calls the engine at most 3 times and stops at the
\* first call that succeeds; when all 3 fail, robust_image_to_osd raises, the
\* page goes on with the uncorrected image, and text recognition and field
\* extraction still run.
C3_OsdBestEffort ==
    /\ Len(osd_outcomes) <= 3
    /\ \A i \in 1..(Len(osd_outcomes) - 1) : osd_outcomes[i] = "fail"
    /\ osd_raised <=> (Len(osd_outcomes) = 3
                         /\ \A i \in 1..3 : osd_outcomes[i] = "fail")
    /\ osd_raised => (ppc # "osd" /\ corrected_image = <<0>>)
    /\ (osd_raised /\ ppc = "done") =>
          /\ ocr_images # <<>>
          /\ ocr_images[1] = 0
          /\ ~page_failed =>
                matches = BuildMatches(route_matches, to_matches, xdock_wh_matches)

\* all three orientation calls failed and the page still produced a record
C3_Witness == osd_raised /\ ppc = "done" /\ matches # <<>>

\* a whitespace followed by "Phone", in that letter case, at position j of s
PhoneAt(s, j) == j >= 1 /\ j <= Len(s) /\ s[j] \in Space /\ LiteralExact(s, j + 1, Phone)

\* "Phone" in any letter case at position j of s
PhoneAnyCaseAt(s, j) == j >= 1 /\ Literal(s, j, Phone)

\* C5 as stated: every emitted StoreName is the captured name cut at the first
\* "Phone" in any letter case and trimmed, so none contains "Phone" in any
\* letter case.
C5_NoPhoneAnyCase ==
    ppc = "done" =>
        \A i \in 1..Len(matches) :
            /\ \A j \in 1..Len(matches[i][3]) : ~PhoneAnyCaseAt(matches[i][3], j)
            /\ \E cut \in 1..(Len(CapturedName) + 1) :
                  /\ cut <= Len(CapturedName) => PhoneAnyCaseAt(CapturedName, cut)
                  /\ \A j \in 1..(cut - 1) : ~PhoneAnyCaseAt(CapturedName, j)
                  /\ matches[i][3] = Strip(SubSeq(CapturedName, 1, cut - 1))

\* C5 amended: every emitted StoreName is the captured name cut at the first
\* whitespace character that is followed by "Phone" in exactly that letter
\* case, with surrounding whitespace trimmed; so no emitted StoreName contains
\* a whitespace followed by "Phone", and none starts or ends with whitespace.
C5_CutAtSpacePhone ==
    ppc = "done" =>
        \A i \in 1..Len(matches) :
            LET st == matches[i][3]
            IN /\ \A j \in 1..Len(st) : ~PhoneAt(st, j)
               /\ st # <<>> => (st[1] \notin Space /\ st[Len(st)] \notin Space)
               /\ \E cut \in 1..(Len(CapturedName) + 1) :
                     /\ cut <= Len(CapturedName) => PhoneAt(CapturedName, cut)
                     /\ \A j \in 1..(cut - 1) : ~PhoneAt(CapturedName, j)
                     /\ st = Strip(SubSeq(CapturedName, 1, cut - 1))

\* a record whose captured name held " Phone" was emitted with the name cut
C5_Witness ==
    /\ ppc = "done" /\ matches # <<>>
    /\ \E j \in 1..Len(CapturedName) : PhoneAt(CapturedName, j)
    /\ Len(matches[1][3]) < Len(CapturedName)

KeysOf(rows) == {Key(rows[i]) : i \in 1..Len(rows)}

\* the rows of page p among rows
RowsOfPage(rows, p) == SelectSeq(rows, LAMBDA r : r.PageNumber = p)

C6_KeysExactlyOnce ==
    bpc = "returned" =>
        /\ \A i, j \in 1..Len(results_df) :
              i # j => Key(results_df[i]) # Key(results_df[j])
        /\ KeysOf(results_df) = UNION {KeysOf(worker_results[f]) : f \in PdfSet}

\* two workers emitted the same key, a page emitted one key twice, and the
\* table was returned
C6_Witness ==
    /\ bpc = "returned"
    /\ failed_docs = {} /\ failed_pages = {}
    /\ KeysOf(worker_results[FileA]) \cap KeysOf(worker_results[FileSubA]) # {}
    /\ Len(all_results) > Len(results_df)

\* number of exports among the first i that are for the pair of export i
NthOfPair(i) ==
    Cardinality({j \in 1..i : /\ exports[j].route_id = exports[i].route_id
                              /\ exports[j].location_number = exports[i].location_number})

\* C7: extract_and_save_page never writes to a name that existed when it
\* picked it, so every successful export adds a file; in an initially empty
\* matched_pages the first export of a pair is "{RouteID} - {LocationNumber}.pdf"
\* and the k-th (k > 1) has the suffix " (k-1)".
C7_NoOverwrite ==
    /\ \A i \in 1..Len(exports) : ~exports[i].existed /\ exports[i].name \notin initial_dir
    /\ Cardinality(out_dir) = Cardinality(initial_dir) + Len(exports)
    /\ initial_dir = {} =>
          \A i \in 1..Len(exports) :
              exports[i].name =
                  IF NthOfPair(i) = 1
                  THEN BaseName(exports[i].route_id, exports[i].location_number)
                  ELSE CountedName(exports[i].route_id, exports[i].location_number,
                                   NthOfPair(i) - 1)

\* the third export of one pair into an initially empty directory
C7_Witness ==
    /\ initial_dir = {}
    /\ \E i \in 1..Len(exports) : exports[i].name = CountedName(R1, L1, 2)

\* C8 as stated: when search_and_save is over, every record of the table that
\* a query names has been exported to a PDF whose name embeds both
\* identifiers, wherever in the input tree its source PDF lies.
C8_EveryMatchExported ==
    mpc = "finished" =>
        \A i \in 1..Len(queries) : \A j \in 1..Len(results_df) :
            Matches(queries[i], results_df[j]) =>
                \E e \in 1..Len(exports) :
                    /\ exports[e].query = i /\ exports[e].row = j
                    /\ exports[e].name \in out_dir
                    /\ exports[e].route_id = queries[i][1]
                    /\ exports[e].location_number = queries[i][2]

\* the row is well formed: both fields present, 8 and 4 digits once stripped
WellFormed(row) ==
    /\ row.RouteID # None /\ row.LocationNumber # None
    /\ FullMatchDigits(Strip(row.RouteID), 8)
    /\ FullMatchDigits(Strip(row.LocationNumber), 4)

RECURSIVE WellFormedRows(_)
WellFormedRows(rows) ==
    IF rows = <<>> THEN <<>>
    ELSE IF WellFormed(Head(rows))
         THEN <<<<Strip(Head(rows).RouteID), Strip(Head(rows).LocationNumber)>>>>
                  \o WellFormedRows(Tail(rows))
         ELSE WellFormedRows(Tail(rows))

\* C9 as stated: read_queries_from_csv returns exactly the well-formed rows, in
\* file order; a malformed row (a missing field included) is left out and the
\* rows after it are still returned.
C9_MalformedRowsSkipped ==
    (cpc = "returned" /\ csv_content.readable) =>
        csv_queries = WellFormedRows(csv_content.rows)

C11_PoolServesEveryPdf ==
    /\ [](bpc # "start" => (bpc # "raised" /\ pool_size \in 1..PoolLimit))
    /\ <>(/\ bpc = "returned"
          /\ completed = PdfSet
          /\ task_queue = <<>> /\ running = {})

====
